---- MODULE Spec2Model ----
(***************************************************************************)
(* Model of campaign-cli's CampaignInstance (src/src/CampaignInstance.js,  *)
(* latest revision, lines 1-374): the query-definition resolver, the       *)
(* filename templating, check, pull and download; and of CampaignAuth      *)
(* (src/src/CampaignAuth.js): init and login; and of the check and pull     *)
(* commands of src/src/main.js.                                            *)
(*                                                                         *)
(* Encoding of JavaScript values:                                          *)
(*  - a string that the code takes apart (filename templates, attribute    *)
(*    names, attribute values, filenames) is a sequence of one-character   *)
(*    strings;                                                             *)
(*  - an object is the sequence of its own properties in insertion order,  *)
(*    each [k |-> key, v |-> value];                                       *)
(*  - a property value of a query definition is a tagged record            *)
(*    [t, s, n]: t = "str" (s is the string), t = "num" (n the number),    *)
(*    t = "obj" (n is the identity of the object: 0 for an object literal  *)
(*    created by the caller, > 0 for an object owned by the configuration, *)
(*    whose node list is heap[n]).                                         *)
(***************************************************************************)
EXTENDS Integers, Sequences, FiniteSets, TLC

VARIABLES
    campaignConfig,   \* this.campaignConfig
    heap,             \* node lists of the select objects owned by the configuration
    schemas,          \* this.schemas
    server,           \* remote instance: number of records it holds per schema id
    disk,             \* destination: [exists, files], files maps a path to its content
    initialDisk,      \* the destination as the command found it
    faulty,           \* whether a write of this run may still throw for an outside cause
    verbose,          \* options.verbose of check
    pc,               \* position of the running command (the await it is suspended on)
    cmd,              \* command that runs: "none", "check" or "pull"
    entry,            \* position of the loop in Object.entries(this.campaignConfig)
    startLine,        \* pull's startLine
    page,             \* number of downloads pull has started for the current schema
    sent,             \* remote calls issued so far, in order
    settled,          \* number of remote calls that have resolved or rejected
    returned,         \* results of the download calls that have returned, in order
    log,              \* message lines printed, in order
    writes,           \* fs.outputFileSync calls made, in order
    outcome,          \* how the command ended: "none", "ok", "CampaignError", "Error"
    args,             \* arguments of the pure function under check
    result,           \* its result
    called,           \* the pure function that has been applied, "" if none
    store,            \* the config store: the entry kept under instances.<alias>
    instanceIds,      \* this.instanceIds of CampaignAuth
    authPc,           \* position of the running CampaignAuth command
    authCmd,          \* CampaignAuth command that runs: "none", "init" or "login"
    authOptions,      \* its options
    storeWrites,      \* config.set calls made, in order
    sdkCalls,         \* calls made on the SDK and on its client, in order
    authOutcome,      \* "none", "client" (login returned a client), "CampaignError"
                      \* or "Error" (a rejection of the SDK)
    authMessage,      \* what the message of the CampaignError contains
    process           \* the process of a command of main.js: [state, code, stderr,
                      \* rethrown]

progVars == <<schemas, server, disk, initialDisk, faulty, verbose, pc, cmd, entry,
              startLine, page, sent, settled, returned, log, writes, outcome>>
funVars == <<args, result, called>>
authVars == <<store, instanceIds, authPc, authCmd, authOptions, storeWrites, sdkCalls,
              authOutcome, authMessage>>
mainVars == <<process>>
vars == <<campaignConfig, heap, progVars, funVars, authVars, mainVars>>

--------------------------------------------------------------------------
(* Strings *)

Str(n) == [t |-> "str", s |-> n, n |-> 0]
Num(n) == [t |-> "num", s |-> "", n |-> n]
Ref(a) == [t |-> "obj", s |-> "", n |-> a]

MinOf(S) == CHOOSE x \in S : \A y \in S : x <= y

\* String.prototype.indexOf: 1-based position of the first occurrence, 0 if none
IndexOf(s, p) ==
    LET hits == {i \in 1..(Len(s) - Len(p) + 1) : SubSeq(s, i, i + Len(p) - 1) = p}
    IN IF hits = {} THEN 0 ELSE MinOf(hits)

\* String.prototype.replace(pattern: string, replacement): first occurrence only
\* (the alphabet has no "$", so the replacement has no special pattern)
StringReplace(s, p, r) ==
    LET i == IndexOf(s, p)
    IN IF i = 0 THEN s
       ELSE SubSeq(s, 1, i - 1) \o r \o SubSeq(s, i + Len(p), Len(s))

\* String(undefined)
UNDEFINED_STRING == <<"u", "n", "d", "e", "f", "i", "n", "e", "d">>

--------------------------------------------------------------------------
(* Objects *)

Keys(o) == [i \in 1..Len(o) |-> o[i].k]
Has(o, key) == \E i \in 1..Len(o) : o[i].k = key
Get(o, key) == o[CHOOSE i \in 1..Len(o) : o[i].k = key].v

\* {...a, ...b}: a's properties in order with b's value where b has the key,
\* then b's remaining properties in order
RECURSIVE NewProps(_, _)
NewProps(a, b) ==
    IF b = <<>> THEN <<>>
    ELSE IF Has(a, Head(b).k) THEN NewProps(a, Tail(b))
         ELSE <<Head(b)>> \o NewProps(a, Tail(b))

Spread(a, b) ==
    [i \in 1..Len(a) |->
        [k |-> a[i].k, v |-> IF Has(b, a[i].k) THEN Get(b, a[i].k) ELSE a[i].v]]
    \o NewProps(a, b)

CONFIG_DEFAULT_KEY == "default"

--------------------------------------------------------------------------
(* CampaignInstance._getQueryDefForSchema *)

\* variant with a slip: the base spec is spread last, so that the base wins
GetQueryDefBaseWins(schema, baseQueryDef) ==
    LET config == IF Has(campaignConfig, schema) THEN Get(campaignConfig, schema)
                  ELSE Get(campaignConfig, CONFIG_DEFAULT_KEY)
        configQueryDef == IF "queryDef" \in DOMAIN config THEN config.queryDef ELSE <<>>
    IN Spread(configQueryDef, baseQueryDef)

\* variant with a slip: no fallback to the default entry
GetQueryDefNoFallback(schema, baseQueryDef) ==
    LET configQueryDef ==
            IF Has(campaignConfig, schema)
               /\ "queryDef" \in DOMAIN Get(campaignConfig, schema)
            THEN Get(campaignConfig, schema).queryDef ELSE <<>>
    IN Spread(baseQueryDef, configQueryDef)

\* variant with a slip: an entry without queryDef takes the default entry's
GetQueryDefDefaultWhenNone(schema, baseQueryDef) ==
    LET own == IF Has(campaignConfig, schema) THEN Get(campaignConfig, schema)
               ELSE Get(campaignConfig, CONFIG_DEFAULT_KEY)
        config == IF "queryDef" \in DOMAIN own THEN own
                  ELSE Get(campaignConfig, CONFIG_DEFAULT_KEY)
        configQueryDef == IF "queryDef" \in DOMAIN config THEN config.queryDef ELSE <<>>
    IN Spread(baseQueryDef, configQueryDef)

_getQueryDefForSchema(schema, baseQueryDef) ==
    LET config == IF Has(campaignConfig, schema) THEN Get(campaignConfig, schema)
                  ELSE Get(campaignConfig, CONFIG_DEFAULT_KEY)
        configQueryDef == IF "queryDef" \in DOMAIN config THEN config.queryDef ELSE <<>>
    IN Spread(baseQueryDef, configQueryDef)

--------------------------------------------------------------------------
(* Filename templates *)

MaxOf(S) == CHOOSE x \in S : \A y \in S : x >= y

\* variant with a slip: the quantifier is greedy, a match runs to the last "}"
RECURSIVE MatchAllGreedy(_, _)
MatchAllGreedy(s, pos) ==
    IF pos > Len(s) THEN <<>>
    ELSE LET closers == {j \in (pos + 2)..Len(s) : s[j] = "}"}
         IN IF s[pos] = "{" /\ closers # {}
            THEN <<SubSeq(s, pos + 1, MaxOf(closers) - 1)>>
                 \o MatchAllGreedy(s, MaxOf(closers) + 1)
            ELSE MatchAllGreedy(s, pos + 1)

\* String.prototype.matchAll(/{(.+?)}/g), the captured groups: scanning from pos,
\* a match starts at a "{" followed by at least one character and then the
\* nearest "}"; the scan resumes after the match
RECURSIVE MatchAllFrom(_, _)
MatchAllFrom(s, pos) ==
    IF pos > Len(s) THEN <<>>
    ELSE LET closers == {j \in (pos + 2)..Len(s) : s[j] = "}"}
         IN IF s[pos] = "{" /\ closers # {}
            THEN <<SubSeq(s, pos + 1, MinOf(closers) - 1)>>
                 \o MatchAllFrom(s, MinOf(closers) + 1)
            ELSE MatchAllFrom(s, pos + 1)

_getAttributesFromSchemaConfig(schemaConfig) == MatchAllFrom(schemaConfig.filename, 1)

\* DomUtil.getAttributeAsString: the attribute's value, "" when the node has none
getAttributeAsString(record, name) ==
    IF name \in DOMAIN record THEN record[name] ELSE <<>>

\* record[name] of a plain object, as String.prototype.replace converts it
PropertyAsString(record, name) ==
    IF name \in DOMAIN record THEN record[name] ELSE UNDEFINED_STRING

AttributeValue(record, configAttribute, json) ==
    IF json THEN PropertyAsString(record, StringReplace(configAttribute, <<"@">>, <<>>))
    ELSE getAttributeAsString(record, StringReplace(configAttribute, <<"@">>, <<>>))

RECURSIVE _computeFilename(_, _, _, _)
_computeFilename(configFilename, configAttributes, record, json) ==
    IF configAttributes = <<>> THEN configFilename
    ELSE _computeFilename(
             StringReplace(configFilename,
                           <<"{">> \o Head(configAttributes) \o <<"}">>,
                           AttributeValue(record, Head(configAttributes), json)),
             Tail(configAttributes), record, json)

--------------------------------------------------------------------------
(* Bounds of the model *)

\* a schema holds up to ExtraRecords records, or a full page and up to as many
ExtraRecords == 3
\* downloads pull may start for one schema
MaxPages == 3
\* length of the filename templates _computeFilename is applied to
MaxTemplateLen == 6

--------------------------------------------------------------------------
(* Inputs: configurations, server contents, destination *)

\* "{n}.x", "r_{@n}.x", "{m}_{n}", "{m}"
TplName == <<"{", "n", "}", ".", "x">>
TplRecipient == <<"r", "_", "{", "@", "n", "}", ".", "x">>
TplMissing == <<"{", "m", "}", "_", "{", "n", "}">>
TplEmpty == <<"{", "m", "}">>

Prop(key, value) == [k |-> key, v |-> value]

\* default and one schema, no queryDef
CfgPlain ==
    << Prop("default", [filename |-> TplName]),
       Prop("nms:recipient", [filename |-> TplRecipient]) >>

\* a queryDef on both entries; the schema's queryDef owns select object 1
CfgQueryDef ==
    << Prop("default", [filename |-> TplName,
                        queryDef |-> <<Prop("where", Str("w0"))>>]),
       Prop("nms:recipient", [filename |-> TplRecipient,
                              queryDef |-> << Prop("select", Ref(1)),
                                              Prop("orderBy", Str("o1")) >>]) >>

\* the schema's queryDef sets startLine; the schema precedes the default entry
CfgStartLine ==
    << Prop("nms:recipient", [filename |-> TplRecipient,
                              queryDef |-> <<Prop("startLine", Num(1))>>]),
       Prop("default", [filename |-> TplName]) >>

\* the schema's queryDef sets lineCount; its template names an attribute the
\* records do not have
CfgLineCount ==
    << Prop("default", [filename |-> TplName]),
       Prop("nms:recipient", [filename |-> TplMissing,
                              queryDef |-> <<Prop("lineCount", Num(5))>>]) >>

\* two schemas; the filenames of the second are empty
CfgTwoSchemas ==
    << Prop("default", [filename |-> TplName]),
       Prop("nms:recipient", [filename |-> TplRecipient]),
       Prop("xtk:form", [filename |-> TplEmpty]) >>

\* templates written with percent tokens: "%s%_%n%.x" and "r_%n%.x"
TplPercentDefault == <<"%", "s", "%", "_", "%", "n", "%", ".", "x">>
TplPercent == <<"r", "_", "%", "n", "%", ".", "x">>

CfgPercent ==
    << Prop("default", [filename |-> TplPercentDefault]),
       Prop("nms:recipient", [filename |-> TplPercent]) >>

Configs ==
    {CfgPlain, CfgQueryDef, CfgStartLine, CfgLineCount, CfgTwoSchemas, CfgPercent}

\* node list of the select object the configuration owns:
\* [{expr: "@n"}, {expr: "data"}]
ConfigHeap == << << <<"@", "n">>, <<"d", "a", "t", "a">> >> >>

KeySet(o) == {o[j].k : j \in 1..Len(o)}

\* pull's page size (const lineCount) and the lineCount of download's base spec
lineCount == 10
DownloadLineCount == 10

RecordCounts == (0..ExtraRecords) \cup (lineCount..(lineCount + ExtraRecords))

\* the instance knows the schemas of the configuration other than "default"
Servers(config) == [KeySet(config) \ {CONFIG_DEFAULT_KEY} -> RecordCounts]

\* decimal digits of a line number, as a string
RECURSIVE Digits(_)
Digits(n) ==
    LET d == <<"0", "1", "2", "3", "4", "5", "6", "7", "8", "9">>
    IN IF n < 10 THEN <<d[n + 1]>> ELSE Digits(n \div 10) \o <<d[(n % 10) + 1]>>

\* the record the server holds at a line of a schema: one attribute, n
Record(schema, line) == (<<"n">> :> Digits(line))

\* DomUtil.toXMLString of that record: an opaque payload that identifies it
toXMLString(schema, line) == [schema |-> schema, line |-> line]

OldFile == [schema |-> "", line |-> 0]
NoFiles == [p \in {} |-> OldFile]
Disks ==
    { [exists |-> FALSE, files |-> NoFiles],
      [exists |-> TRUE, files |-> NoFiles],
      [exists |-> TRUE, files |-> (<<"o", "l", "d">> :> OldFile)],
      [exists |-> TRUE, files |-> (<<"r", "_", "1", ".", "x">> :> OldFile)] }

--------------------------------------------------------------------------
(* The remote query interface *)

NumberOr(queryDef, key, other) ==
    IF Has(queryDef, key) /\ Get(queryDef, key).t = "num"
    THEN Get(queryDef, key).n ELSE other

\* records the instance holds for the schema the query definition names
Held(queryDef) ==
    IF Has(queryDef, "schema") /\ Get(queryDef, "schema").s \in DOMAIN server
    THEN server[Get(queryDef, "schema").s] ELSE 0

\* lines the instance answers a query definition with: lineCount lines from
\* startLine (from line 1, and every line, when the definition does not say)
Window(queryDef) ==
    LET first == NumberOr(queryDef, "startLine", 1)
        count == NumberOr(queryDef, "lineCount", Held(queryDef))
        n == Held(queryDef)
        last == IF first + count - 1 < n THEN first + count - 1 ELSE n
    IN [j \in 1..(IF last >= first THEN last - first + 1 ELSE 0) |-> first + j - 1]

\* select.node of a query definition as it is serialized for the call
Nodes(queryDef, literal) ==
    IF Has(queryDef, "select") /\ Get(queryDef, "select").t = "obj"
    THEN IF Get(queryDef, "select").n = 0 THEN literal
         ELSE heap[Get(queryDef, "select").n]
    ELSE <<>>

\* a remote call: the method of the query object, the schema id and startLine
\* its caller was given (line 0: none), and the query definition it carries
Call(op, method, schemaId, line, queryDef, nodes) ==
    [op |-> op, method |-> method, schemaId |-> schemaId, line |-> line,
     queryDef |-> queryDef, nodes |-> nodes]

--------------------------------------------------------------------------
(* CampaignInstance.constructor *)

SchemasOf(config) == SelectSeq(Keys(config), LAMBDA key : key # CONFIG_DEFAULT_KEY)

--------------------------------------------------------------------------
(* CampaignInstance.download *)

DownloadBaseQueryDef(schemaId, line) ==
    << Prop("schema", Str(schemaId)),
       Prop("operation", Str("select")),
       Prop("select", Ref(0)),
       Prop("startLine", Num(line)),
       Prop("lineCount", Num(DownloadLineCount)) >>

DownloadQueryDef(schemaId, line) ==
    _getQueryDefForSchema(schemaId, DownloadBaseQueryDef(schemaId, line))

DownloadCall(method, schemaId, line) ==
    Call("download", method, schemaId, line, DownloadQueryDef(schemaId, line),
         Nodes(DownloadQueryDef(schemaId, line), << <<"d", "a", "t", "a">> >>))

DownloadConfig(schemaId) ==
    IF Has(campaignConfig, schemaId) THEN Get(campaignConfig, schemaId)
    ELSE Get(campaignConfig, CONFIG_DEFAULT_KEY)

\* path.join(folderPath, filename), relative to folderPath: "" and "." are the
\* folder itself, ".." is its parent
IsDirectory(filename) == filename \in {<<>>, <<".">>, <<".", ".">>}

\* filename of the j-th record of a page
PageFilename(schemaId, lines, j) ==
    _computeFilename(DownloadConfig(schemaId).filename,
                     _getAttributesFromSchemaConfig(DownloadConfig(schemaId)),
                     Record(schemaId, lines[j]), FALSE)

\* variant with a slip: the walk ends one record early
PageWritesLeavesOutLast(schemaId, lines, failAt) ==
    [j \in 1..(IF failAt = 0 THEN Len(lines) - 1 ELSE failAt) |->
        [path |-> PageFilename(schemaId, lines, j),
         data |-> toXMLString(schemaId, lines[j]),
         ok |-> j # failAt]]

\* fs.outputFileSync calls of the walk over a page whose failAt-th write throws
\* (0: none does): one per record up to the failing one
PageWrites(schemaId, lines, failAt) ==
    [j \in 1..(IF failAt = 0 THEN Len(lines) ELSE failAt) |->
        [path |-> PageFilename(schemaId, lines, j),
         data |-> toXMLString(schemaId, lines[j]),
         ok |-> j # failAt]]

\* variant with a slip: a file that exists is kept
RECURSIVE WrittenKeepsExisting(_, _)
WrittenKeepsExisting(files, ws) ==
    IF ws = <<>> THEN files
    ELSE WrittenKeepsExisting(IF Head(ws).ok
                              THEN files @@ (Head(ws).path :> Head(ws).data)
                              ELSE files,
                              Tail(ws))

RECURSIVE Written(_, _)
Written(files, ws) ==
    IF ws = <<>> THEN files
    ELSE Written(IF Head(ws).ok
                 THEN (Head(ws).path :> Head(ws).data) @@ files
                 ELSE files,
                 Tail(ws))

\* first record of the page whose path is a directory, 0 if none
FirstDirectory(schemaId, lines) ==
    LET bad == {j \in 1..Len(lines) : IsDirectory(PageFilename(schemaId, lines, j))}
    IN IF bad = {} THEN 0 ELSE MinOf(bad)

\* recordsLength when the walk ends: it is incremented before each write
RecordsLength(lines, failAt) ==
    IF failAt = 0 THEN Len(lines) ELSE failAt

Message(kind, schemaId, count, files) ==
    [kind |-> kind, schemaId |-> schemaId, count |-> count, files |-> files]

\* a return of download: its arguments, the number returned, and what ended the
\* try block ("end": its last statement, "query": a rejected call, "write": a
\* write that threw)
Return(schemaId, line, count, ended) ==
    [schemaId |-> schemaId, startLine |-> line, count |-> count, ended |-> ended]

\* recordsLength when selectAll or executeQuery rejects: still its initial value
InitialRecordsLength == 0

--------------------------------------------------------------------------
(* CampaignInstance.pull *)

\* variant with a slip: a full page ends the pagination
PullLoopContinuesStrict(recordsLength) == recordsLength > lineCount

\* variant with a slip: any page continues the pagination
PullLoopContinuesAlways(recordsLength) == recordsLength >= 0

\* the do-while condition
PullLoopContinues(recordsLength) == recordsLength >= lineCount

\* the entries the for loop walks
PullEntries == campaignConfig

\* pull from the return of a download to its next await, or to its end
PullAfterDownload(recordsLength) ==
    IF PullLoopContinues(recordsLength)
    THEN /\ page < MaxPages
         /\ pc' = "download.selectAll"
         /\ entry' = entry
         /\ startLine' = startLine + lineCount
         /\ page' = page + 1
         /\ sent' = Append(sent, DownloadCall("selectAll", PullEntries[entry].k,
                                              startLine + lineCount))
         /\ outcome' = outcome
    ELSE IF entry < Len(PullEntries)
         THEN /\ pc' = "download.selectAll"
              /\ entry' = entry + 1
              /\ startLine' = 1
              /\ page' = 1
              /\ sent' = Append(sent, DownloadCall("selectAll",
                                                   PullEntries[entry + 1].k, 1))
              /\ outcome' = outcome
         ELSE /\ pc' = "done"
              /\ outcome' = "ok"
              /\ UNCHANGED <<entry, startLine, page, sent>>

\* pull up to the first await: the destination is created when it is missing,
\* the emptiness test has no effect, the first download is started
PullStart ==
    /\ pc = "idle"
    /\ cmd' = "pull"
    /\ disk' = [disk EXCEPT !.exists = TRUE]
    /\ pc' = "download.selectAll"
    /\ entry' = 1
    /\ startLine' = 1
    /\ page' = 1
    /\ sent' = Append(sent, DownloadCall("selectAll", PullEntries[1].k, 1))
    /\ UNCHANGED <<campaignConfig, heap, schemas, server, initialDisk, faulty, verbose,
                   settled, returned, log, writes, outcome, funVars, authVars, mainVars>>

\* variant with a slip: selectAll is not awaited, executeQuery is called while
\* it is still in flight
SelectAllNotAwaited ==
    /\ pc = "download.selectAll"
    /\ settled' = settled
    /\ pc' = "download.executeQuery"
    /\ sent' = Append(sent, DownloadCall("executeQuery", PullEntries[entry].k,
                                         startLine))
    /\ UNCHANGED <<campaignConfig, heap, schemas, server, initialDisk, disk, faulty, verbose,
                   cmd, entry, startLine, page, returned, log, writes, outcome,
                   funVars, authVars, mainVars>>

\* await query.selectAll(false) resolves: executeQuery is called
SelectAllResolves ==
    /\ pc = "download.selectAll"
    /\ settled' = settled + 1
    /\ pc' = "download.executeQuery"
    /\ sent' = Append(sent, DownloadCall("executeQuery", PullEntries[entry].k,
                                         startLine))
    /\ UNCHANGED <<campaignConfig, heap, schemas, server, initialDisk, disk, faulty, verbose,
                   cmd, entry, startLine, page, returned, log, writes, outcome,
                   funVars, authVars, mainVars>>

\* selectAll or executeQuery rejects: download catches, prints and returns
DownloadQueryRejects ==
    /\ pc \in {"download.selectAll", "download.executeQuery"}
    /\ settled' = settled + 1
    /\ log' = Append(log, Message("error", PullEntries[entry].k, 0, <<>>))
    /\ returned' = Append(returned, Return(PullEntries[entry].k, startLine,
                                           InitialRecordsLength, "query"))
    /\ PullAfterDownload(InitialRecordsLength)
    /\ UNCHANGED <<campaignConfig, heap, schemas, server, initialDisk, disk, faulty, verbose,
                   cmd, writes, funVars, authVars, mainVars>>

\* executeQuery resolves: download walks the page and writes one file per record;
\* a write that throws (the path is a directory, or an outside cause, once)
\* ends the walk in the catch clause; download returns recordsLength
ExecuteQueryResolves ==
    /\ pc = "download.executeQuery"
    /\ settled' = settled + 1
    /\ LET schemaId == PullEntries[entry].k
           lines == Window(DownloadQueryDef(schemaId, startLine))
           dir == FirstDirectory(schemaId, lines)
           faultable == IF ~faulty THEN 0
                        ELSE IF dir = 0 THEN Len(lines) ELSE dir - 1
       IN \E fault \in 0..faultable :
            LET failAt == IF fault > 0 THEN fault ELSE dir
                ws == PageWrites(schemaId, lines, failAt)
                recordsLength == RecordsLength(lines, failAt)
            IN /\ faulty' = (faulty /\ fault = 0)
               /\ writes' = writes \o ws
               /\ disk' = [disk EXCEPT !.files = Written(disk.files, ws)]
               /\ log' = Append(log,
                                IF failAt = 0
                                THEN Message("saved", schemaId, recordsLength, <<>>)
                                ELSE Message("error", schemaId, 0, <<>>))
               /\ returned' = Append(returned,
                                     Return(schemaId, startLine, recordsLength,
                                            IF failAt = 0 THEN "end" ELSE "write"))
               /\ PullAfterDownload(recordsLength)
    /\ UNCHANGED <<campaignConfig, heap, schemas, server, initialDisk, verbose, cmd, funVars, authVars, mainVars>>

--------------------------------------------------------------------------
(* CampaignInstance.check *)

\* the entries the for loop walks
CheckEntries == campaignConfig

\* variant with a slip: the base spec asks for a count
CheckBaseQueryDefCount(schemaId) ==
    << Prop("schema", Str(schemaId)),
       Prop("operation", Str("count")),
       Prop("select", Ref(0)) >>

CheckBaseQueryDef(schemaId) ==
    << Prop("schema", Str(schemaId)),
       Prop("operation", Str("select")),
       Prop("select", Ref(0)) >>

CheckQueryDef(schemaId) == _getQueryDefForSchema(schemaId, CheckBaseQueryDef(schemaId))

\* queryDef.select.node = configAttributes.map(...): when the merged select is
\* the configuration's own object, it is that object's node list that is set
CheckHeap(e) ==
    LET select == Get(CheckQueryDef(CheckEntries[e].k), "select")
    IN IF select.t = "obj" /\ select.n > 0
       THEN [heap EXCEPT ![select.n] = _getAttributesFromSchemaConfig(CheckEntries[e].v)]
       ELSE heap

CheckCall(e) ==
    Call("check", "executeQuery", CheckEntries[e].k, 0,
         CheckQueryDef(CheckEntries[e].k),
         _getAttributesFromSchemaConfig(CheckEntries[e].v))

\* the filenames printed for the records of a schema when verbose
CheckFilenames(e, lines) ==
    [j \in 1..Len(lines) |->
        _computeFilename(CheckEntries[e].v.filename,
                         _getAttributesFromSchemaConfig(CheckEntries[e].v),
                         Record(CheckEntries[e].k, lines[j]), TRUE)]

\* variant with a slip: a rejected query is rethrown after it is printed
CheckAfterRejectRethrows(e) ==
    /\ pc' = "done"
    /\ outcome' = "Error"
    /\ UNCHANGED <<entry, heap, sent>>

\* the end of check: the emptiness test is commented out, check returns
CheckEnd ==
    /\ pc' = "done"
    /\ outcome' = "ok"
    /\ UNCHANGED <<entry, heap, sent>>

\* check from the end of one iteration to its next await, or to its end
CheckAfterQuery(e) ==
    IF e < Len(CheckEntries)
    THEN /\ pc' = "check.executeQuery"
         /\ entry' = e + 1
         /\ heap' = CheckHeap(e + 1)
         /\ sent' = Append(sent, CheckCall(e + 1))
         /\ outcome' = outcome
    ELSE CheckEnd

\* what follows the catch clause of an iteration
CheckAfterReject(e) == CheckAfterQuery(e)

\* variant with a slip: check creates the destination when it is missing, as
\* pull does
CheckStartCreatesDestination ==
    /\ pc = "idle"
    /\ cmd' = "check"
    /\ verbose' \in BOOLEAN
    /\ disk' = [disk EXCEPT !.exists = TRUE]
    /\ pc' = "check.executeQuery"
    /\ entry' = 1
    /\ heap' = CheckHeap(1)
    /\ sent' = Append(sent, CheckCall(1))
    /\ UNCHANGED <<campaignConfig, schemas, server, initialDisk, faulty, startLine,
                   page, settled, returned, log, writes, outcome, funVars, authVars,
                   mainVars>>

\* check up to its first await
CheckStart ==
    /\ pc = "idle"
    /\ cmd' = "check"
    /\ verbose' \in BOOLEAN
    /\ pc' = "check.executeQuery"
    /\ entry' = 1
    /\ heap' = CheckHeap(1)
    /\ sent' = Append(sent, CheckCall(1))
    /\ UNCHANGED <<campaignConfig, schemas, server, initialDisk, disk, faulty,
                   startLine, page, settled, returned, log, writes, outcome,
                   funVars, authVars, mainVars>>

\* executeQuery resolves: the number of records is printed
CheckQueryResolves ==
    /\ pc = "check.executeQuery"
    /\ settled' = settled + 1
    /\ LET lines == Window(sent[Len(sent)].queryDef)
       IN log' = Append(log, Message("found", CheckEntries[entry].k, Len(lines),
                                     IF verbose THEN CheckFilenames(entry, lines)
                                     ELSE <<>>))
    /\ CheckAfterQuery(entry)
    /\ UNCHANGED <<campaignConfig, schemas, server, initialDisk, disk, faulty, verbose, cmd,
                   startLine, page, returned, writes, funVars, authVars, mainVars>>

\* executeQuery rejects: the error is printed
CheckQueryRejects ==
    /\ pc = "check.executeQuery"
    /\ settled' = settled + 1
    /\ log' = Append(log, Message("error", CheckEntries[entry].k, 0, <<>>))
    /\ CheckAfterReject(entry)
    /\ UNCHANGED <<campaignConfig, schemas, server, initialDisk, disk, faulty, verbose, cmd,
                   startLine, page, returned, writes, funVars, authVars, mainVars>>

--------------------------------------------------------------------------
(* The program: one command, check or pull, on a constructed instance *)

IdleFun == /\ args = <<>> /\ result = <<>> /\ called = ""

\* no command of main.js runs
IdleMain ==
    process = [state |-> "none", code |-> 0, stderr |-> "", rethrown |-> FALSE]

\* no CampaignAuth command runs
IdleAuth ==
    /\ store = [a \in {} |-> <<>>]
    /\ instanceIds = {}
    /\ authPc = "none"
    /\ authCmd = "none"
    /\ authOptions = <<>>
    /\ storeWrites = <<>>
    /\ sdkCalls = <<>>
    /\ authOutcome = "none"
    /\ authMessage = ""

Init ==
    /\ campaignConfig \in Configs
    /\ heap = ConfigHeap
    /\ schemas = SchemasOf(campaignConfig)
    /\ server \in Servers(campaignConfig)
    /\ disk \in Disks
    /\ initialDisk = disk
    /\ faulty \in BOOLEAN
    /\ verbose = FALSE
    /\ pc = "idle"
    /\ cmd = "none"
    /\ entry = 0
    /\ startLine = 0
    /\ page = 0
    /\ sent = <<>>
    /\ settled = 0
    /\ returned = <<>>
    /\ log = <<>>
    /\ writes = <<>>
    /\ outcome = "none"
    /\ IdleFun
    /\ IdleAuth
    /\ IdleMain

Next ==
    \/ CheckStart
    \/ CheckQueryResolves
    \/ CheckQueryRejects
    \/ PullStart
    \/ SelectAllResolves
    \/ DownloadQueryRejects
    \/ ExecuteQueryResolves

Spec == Init /\ [][Next]_vars

--------------------------------------------------------------------------
(* _getQueryDefForSchema applied to every configuration, schema id and base *)
(* spec of a bounded family                                                 *)

\* queryDef objects an entry may carry; tag tells the entries' values apart
Overrides(tag) ==
    { <<>>,
      <<Prop("where", Str(tag))>>,
      <<Prop("operation", Str(tag))>>,
      <<Prop("startLine", Num(5)), Prop("lineCount", Num(20))>>,
      <<Prop("orderBy", Str(tag)), Prop("select", Ref(1)), Prop("schema", Str(tag))>> }

Entries(filename, tag) ==
    {[filename |-> filename]}
    \cup {[filename |-> filename, queryDef |-> q] : q \in Overrides(tag)}

ResolveConfigs ==
    {<<Prop("default", d)>> : d \in Entries(TplName, "d")}
    \cup {<<Prop("default", d), Prop("nms:recipient", e)>> :
             d \in Entries(TplName, "d"), e \in Entries(TplRecipient, "r")}

ResolveSchemas == {"nms:recipient", "xtk:form", "default"}

ResolveBases(schema) ==
    { <<Prop("schema", Str(schema)), Prop("operation", Str("count"))>>,
      CheckBaseQueryDef(schema),
      DownloadBaseQueryDef(schema, 1),
      DownloadBaseQueryDef(schema, 1 + lineCount) }

IdleProgram ==
    /\ heap = ConfigHeap
    /\ schemas = SchemasOf(campaignConfig)
    /\ server = [k \in {} |-> 0]
    /\ disk = [exists |-> FALSE, files |-> NoFiles]
    /\ initialDisk = disk
    /\ faulty = FALSE
    /\ verbose = FALSE
    /\ pc = "function"
    /\ cmd = "none"
    /\ entry = 0
    /\ startLine = 0
    /\ page = 0
    /\ sent = <<>>
    /\ settled = 0
    /\ returned = <<>>
    /\ log = <<>>
    /\ writes = <<>>
    /\ outcome = "none"

InitResolve ==
    /\ campaignConfig \in ResolveConfigs
    /\ \E schema \in ResolveSchemas :
         args \in {[schema |-> schema, baseQueryDef |-> b] : b \in ResolveBases(schema)}
    /\ result = <<>>
    /\ called = ""
    /\ IdleProgram
    /\ IdleAuth
    /\ IdleMain

ResolveQueryDef ==
    /\ called = ""
    /\ result' = _getQueryDefForSchema(args.schema, args.baseQueryDef)
    /\ called' = "_getQueryDefForSchema"
    /\ UNCHANGED <<campaignConfig, heap, progVars, args, authVars, mainVars>>

SpecResolve == InitResolve /\ [][ResolveQueryDef]_vars

--------------------------------------------------------------------------
(* _computeFilename applied to every template of a bounded family, with the *)
(* attributes its callers extract from the template, in both record shapes  *)

TemplateAlphabet == {"{", "}", "@", "n", "m"}

Templates ==
    UNION {[1..len -> TemplateAlphabet] : len \in 0..MaxTemplateLen}

\* records: no attribute, n alone, n and m
FilenameRecords ==
    { [a \in {} |-> <<>>],
      (<<"n">> :> <<"a">>),
      (<<"n">> :> <<"a">>) @@ (<<"m">> :> <<"b">>) }

InitFilename ==
    /\ campaignConfig = CfgPlain
    /\ args \in [configFilename : Templates, record : FilenameRecords, json : BOOLEAN]
    /\ result = <<>>
    /\ called = ""
    /\ IdleProgram
    /\ IdleAuth
    /\ IdleMain

ComputeFilename ==
    /\ called = ""
    /\ result' = _computeFilename(
                     args.configFilename,
                     _getAttributesFromSchemaConfig([filename |-> args.configFilename]),
                     args.record, args.json)
    /\ called' = "_computeFilename"
    /\ UNCHANGED <<campaignConfig, heap, progVars, args, authVars, mainVars>>

SpecFilename == InitFilename /\ [][ComputeFilename]_vars

--------------------------------------------------------------------------
(* _getAttributesFromSchemaConfig applied to every template of the family *)

InitAttributes ==
    /\ campaignConfig = CfgPlain
    /\ args \in [filename : Templates]
    /\ result = <<>>
    /\ called = ""
    /\ IdleProgram
    /\ IdleAuth
    /\ IdleMain

GetAttributes ==
    /\ called = ""
    /\ result' = _getAttributesFromSchemaConfig(args)
    /\ called' = "_getAttributesFromSchemaConfig"
    /\ UNCHANGED <<campaignConfig, heap, progVars, args, authVars, mainVars>>

SpecAttributes == InitAttributes /\ [][GetAttributes]_vars

--------------------------------------------------------------------------
(* CampaignInstance.getArchiveDate applied to the instants of a family *)

\* String.prototype.slice(-2): the last two characters
SliceLastTwo(s) == IF Len(s) <= 2 THEN s ELSE SubSeq(s, Len(s) - 1, Len(s))

\* ("0" + n).slice(-2)
TwoDigits(n) == SliceLastTwo(<<"0">> \o Digits(n))

\* the string built from the fields of the Date
getArchiveDate(ts_hms) ==
    Digits(ts_hms.getFullYear)
    \o <<"/">> \o TwoDigits(ts_hms.getMonth + 1)
    \o <<"/">> \o TwoDigits(ts_hms.getDate)
    \o <<"/">> \o TwoDigits(ts_hms.getHours)
    \o <<"-">> \o TwoDigits(ts_hms.getMinutes)
    \o <<"-">> \o TwoDigits(ts_hms.getSeconds)
    \o <<"_">> \o Digits(ts_hms.getMilliseconds)

\* instants: the fields of a Date, at the ends of their ranges and where the
\* number of their digits changes
Instants ==
    [getFullYear : {2023},
     getMonth : {0, 8, 9, 11},
     getDate : {1, 9, 10, 31},
     getHours : {0, 9, 10, 23},
     getMinutes : {0, 59},
     getSeconds : {0, 59},
     getMilliseconds : {0, 5, 9, 10, 99, 100, 123, 999}]

InitArchiveDate ==
    /\ campaignConfig = CfgPlain
    /\ args \in Instants
    /\ result = <<>>
    /\ called = ""
    /\ IdleProgram
    /\ IdleAuth
    /\ IdleMain

GetArchiveDate ==
    /\ called = ""
    /\ result' = getArchiveDate(args)
    /\ called' = "getArchiveDate"
    /\ UNCHANGED <<campaignConfig, heap, progVars, args, authVars, mainVars>>

SpecArchiveDate == InitArchiveDate /\ [][GetArchiveDate]_vars

--------------------------------------------------------------------------
(* CampaignAuth: init and login on a config store *)

\* a field of a stored entry or of the options: "" stands for a value that is
\* missing or empty (falsy), "x" for a non-empty string
FieldValues == {"", "x"}
Aliases == {"prod", "staging"}
Credentials == [host : FieldValues, user : FieldValues, password : FieldValues]

\* the stores: some of the aliases, each with an entry
Stores == UNION {[ids -> Credentials] : ids \in SUBSET Aliases}

INSTANCES_KEY == "instances"

\* config.get(`instances.${alias}`) || {}
StoredEntry(st, alias) ==
    IF alias \in DOMAIN st THEN st[alias]
    ELSE [host |-> "", user |-> "", password |-> ""]

\* the call config.set(`instances.${alias}`, {host, user, password})
SetCall(options) ==
    [key |-> <<INSTANCES_KEY, options.alias>>,
     value |-> [host |-> options.host, user |-> options.user,
                password |-> options.password]]

\* variant with a slip: the entry is not looked at before the connection
LoginNeedsNothing(stored) == FALSE

\* login's test of the stored entry: !host || !user || !password
LoginEntryIsIncomplete(stored) ==
    stored.host = "" \/ stored.user = "" \/ stored.password = ""

\* login up to its first await, on the store st
LoginStart(st, alias) ==
    IF LoginEntryIsIncomplete(StoredEntry(st, alias))
    THEN /\ authPc' = "done"
         /\ authOutcome' = "CampaignError"
         /\ authMessage' = "doesn't exist"
         /\ sdkCalls' = sdkCalls
    ELSE /\ authPc' = "sdk.init"
         /\ sdkCalls' = Append(sdkCalls, [call |-> "sdk.init",
                                          with |-> StoredEntry(st, alias)])
         /\ UNCHANGED <<authOutcome, authMessage>>

\* variant with a slip: the alias is looked up in nothing
InitAliasIsNew(alias) == FALSE

\* init's test: this.instanceIds.includes(options.alias)
InitAliasExists(alias) == alias \in instanceIds

\* init, up to the first await of the login it ends with
AuthInit ==
    /\ authPc = "idle"
    /\ \E options \in [alias : Aliases, host : FieldValues, user : FieldValues,
                        password : FieldValues] :
          /\ authCmd' = "init"
          /\ authOptions' = options
          /\ IF InitAliasExists(options.alias)
             THEN /\ authPc' = "done"
                  /\ authOutcome' = "CampaignError"
                  /\ authMessage' = "already exists"
                  /\ UNCHANGED <<store, storeWrites, sdkCalls>>
             ELSE /\ store' = [a \in DOMAIN store \cup {options.alias} |->
                                  IF a = options.alias THEN SetCall(options).value
                                  ELSE store[a]]
                  /\ storeWrites' = Append(storeWrites, SetCall(options))
                  /\ LoginStart(store', options.alias)
    /\ UNCHANGED <<campaignConfig, heap, progVars, funVars, mainVars, instanceIds>>

\* login, up to its first await
AuthLogin ==
    /\ authPc = "idle"
    /\ \E alias \in Aliases :
          /\ authCmd' = "login"
          /\ authOptions' = [alias |-> alias]
          /\ LoginStart(store, alias)
    /\ UNCHANGED <<campaignConfig, heap, progVars, funVars, mainVars, store, instanceIds,
                   storeWrites>>

\* await this.sdk.init(connectionParameters) resolves: client.logon() is called
SdkInitResolves ==
    /\ authPc = "sdk.init"
    /\ authPc' = "client.logon"
    /\ sdkCalls' = Append(sdkCalls, [call |-> "client.logon",
                                     with |-> sdkCalls[Len(sdkCalls)].with])
    /\ UNCHANGED <<campaignConfig, heap, progVars, funVars, mainVars, store, instanceIds,
                   authCmd, authOptions, storeWrites, authOutcome, authMessage>>

\* sdk.init or client.logon rejects: the rejection leaves login
SdkRejects ==
    /\ authPc \in {"sdk.init", "client.logon"}
    /\ authPc' = "done"
    /\ authOutcome' = "Error"
    /\ UNCHANGED <<campaignConfig, heap, progVars, funVars, mainVars, store, instanceIds,
                   authCmd, authOptions, storeWrites, sdkCalls, authMessage>>

\* variant with a slip: the client is returned whatever the session holds
LoginEndReturnsClient(serverInfo) ==
    /\ authOutcome' = "client"
    /\ authMessage' = authMessage

\* the end of login, from the session's serverInfo (whether there is one)
LoginEnd(serverInfo) ==
    IF ~serverInfo
    THEN /\ authOutcome' = "CampaignError"
         /\ authMessage' = "Unable to get server info"
    ELSE /\ authOutcome' = "client"
         /\ authMessage' = authMessage

\* await client.logon() resolves: the session has server info, or has none
LogonResolves ==
    /\ authPc = "client.logon"
    /\ authPc' = "done"
    /\ \E serverInfo \in BOOLEAN :
          /\ LoginEnd(serverInfo)
          /\ sdkCalls' = Append(sdkCalls, [call |-> "getSessionInfo",
                                           with |-> [serverInfo |-> serverInfo]])
    /\ UNCHANGED <<campaignConfig, heap, progVars, funVars, mainVars, store, instanceIds,
                   authCmd, authOptions, storeWrites>>

\* a constructed CampaignAuth: this.instanceIds are the keys of the stored
\* instances
InitAuth ==
    /\ campaignConfig = CfgPlain
    /\ IdleProgram
    /\ IdleFun
    /\ store \in Stores
    /\ instanceIds = DOMAIN store
    /\ authPc = "idle"
    /\ authCmd = "none"
    /\ authOptions = <<>>
    /\ storeWrites = <<>>
    /\ sdkCalls = <<>>
    /\ authOutcome = "none"
    /\ authMessage = ""
    /\ IdleMain

NextAuth ==
    \/ AuthInit
    \/ AuthLogin
    \/ SdkInitResolves
    \/ SdkRejects
    \/ LogonResolves

SpecAuth == InitAuth /\ [][NextAuth]_vars

--------------------------------------------------------------------------
(* main.js: the check and pull commands, from the command line to the end *)
(* of the process                                                          *)

\* handleCampaignError: a CampaignError is printed on the error stream and the
\* process exits with code 1; any other error is thrown again, out of the
\* action, and ends the process as an uncaught error
handleCampaignError(kind, message) ==
    IF kind = "CampaignError"
    THEN process' = [state |-> "exited", code |-> 1, stderr |-> message,
                     rethrown |-> FALSE]
    ELSE process' = [state |-> "exited", code |-> 1, stderr |-> "",
                     rethrown |-> TRUE]

\* JSON.parse(fs.readFileSync(options.config)) throws
MainConfigUnreadable ==
    /\ process.state = "running"
    /\ authPc = "idle"
    /\ handleCampaignError("Error", "")
    /\ UNCHANGED <<campaignConfig, heap, progVars, funVars, authVars>>

\* the configuration is read and auth.login is called
MainLogin ==
    /\ process.state = "running"
    /\ AuthLogin

\* auth.login throws or rejects: the catch clause of the action
MainLoginFails ==
    /\ process.state = "running"
    /\ authPc = "done"
    /\ authOutcome \in {"CampaignError", "Error"}
    /\ handleCampaignError(authOutcome, authMessage)
    /\ UNCHANGED <<campaignConfig, heap, progVars, funVars, authVars>>

\* auth.login returns the client: the instance is constructed and checked
MainCheck ==
    /\ process.state = "running"
    /\ authPc = "done" /\ authOutcome = "client"
    /\ CheckStart

\* auth.login returns the client: the instance is constructed and pulled
MainPull ==
    /\ process.state = "running"
    /\ authPc = "done" /\ authOutcome = "client"
    /\ PullStart

\* instance.check or instance.pull has ended: the action returns, or catches
MainCommandEnds ==
    /\ process.state = "running"
    /\ pc = "done"
    /\ IF outcome = "ok"
       THEN process' = [state |-> "exited", code |-> 0, stderr |-> "",
                        rethrown |-> FALSE]
       ELSE handleCampaignError(outcome, "not empty")
    /\ UNCHANGED <<campaignConfig, heap, progVars, funVars, authVars>>

\* the stores of the command: no instance, prod with its credentials, prod
\* without password
MainStores ==
    { [a \in {} |-> <<>>],
      [a \in {"prod"} |-> [host |-> "x", user |-> "x", password |-> "x"]],
      [a \in {"prod"} |-> [host |-> "x", user |-> "x", password |-> ""]] }

InitMain ==
    /\ campaignConfig \in Configs
    /\ heap = ConfigHeap
    /\ schemas = SchemasOf(campaignConfig)
    /\ server \in Servers(campaignConfig)
    /\ disk \in Disks
    /\ initialDisk = disk
    /\ faulty \in BOOLEAN
    /\ verbose = FALSE
    /\ pc = "idle"
    /\ cmd = "none"
    /\ entry = 0
    /\ startLine = 0
    /\ page = 0
    /\ sent = <<>>
    /\ settled = 0
    /\ returned = <<>>
    /\ log = <<>>
    /\ writes = <<>>
    /\ outcome = "none"
    /\ IdleFun
    /\ store \in MainStores
    /\ instanceIds = DOMAIN store
    /\ authPc = "idle"
    /\ authCmd = "none"
    /\ authOptions = <<>>
    /\ storeWrites = <<>>
    /\ sdkCalls = <<>>
    /\ authOutcome = "none"
    /\ authMessage = ""
    /\ process = [state |-> "running", code |-> 0, stderr |-> "", rethrown |-> FALSE]

NextMain ==
    \/ MainConfigUnreadable
    \/ MainLogin
    \/ SdkInitResolves
    \/ SdkRejects
    \/ LogonResolves
    \/ MainLoginFails
    \/ MainCheck
    \/ MainPull
    \/ CheckQueryResolves
    \/ CheckQueryRejects
    \/ SelectAllResolves
    \/ DownloadQueryRejects
    \/ ExecuteQueryResolves
    \/ MainCommandEnds

SpecMain == InitMain /\ [][NextMain]_vars

--------------------------------------------------------------------------
(* Properties *)

\* the downloads pull has started, in order: each starts with selectAll
Downloads == SelectSeq(sent, LAMBDA c : c.op = "download" /\ c.method = "selectAll")

\* the select queries sent to the server, in order
IsFetch(c) == c.op = "download" /\ c.method = "executeQuery"

\* the queries check has sent, in order
ChecksSent == SelectSeq(sent, LAMBDA c : c.op = "check")

EntryIndex(schemaId) ==
    CHOOSE e \in 1..Len(campaignConfig) : campaignConfig[e].k = schemaId

(* C1: in pull, a download that returns at least 10 records (the page size) is
   followed by the next download of the same schema, at startLine + 10, and a
   download that returns fewer than 10 records is the last one of its schema. *)
C1_PaginationFollowsRecordCount ==
    \A k \in 1..Len(returned) :
        /\ Downloads[k].schemaId = returned[k].schemaId
        /\ returned[k].count >= lineCount =>
              /\ Len(Downloads) > k
              /\ Downloads[k + 1].schemaId = returned[k].schemaId
              /\ Downloads[k + 1].line = returned[k].startLine + lineCount
        /\ returned[k].count < lineCount =>
              \A m \in (k + 1)..Len(Downloads) :
                  Downloads[m].schemaId # returned[k].schemaId

\* a finished pull in which a schema's first page returned 10 records and its
\* second page fewer: exactly two downloads of that schema
C1_Witness ==
    /\ cmd = "pull" /\ pc = "done"
    /\ \E k \in 1..(Len(returned) - 1) :
          /\ returned[k].count = lineCount
          /\ returned[k].startLine = 1
          /\ returned[k + 1].schemaId = returned[k].schemaId
          /\ returned[k + 1].count \in 1..(lineCount - 1)
          /\ Cardinality({m \in 1..Len(Downloads) :
                             Downloads[m].schemaId = returned[k].schemaId}) = 2

(* C2: the k-th select query sent for a schema during pull carries
   startLine = 1 + 10 * (k - 1), whatever the configuration. *)
C2_StartLineAdvancesByPageSize ==
    \A m \in 1..Len(sent) :
        IsFetch(sent[m]) =>
            LET k == Cardinality({j \in 1..m : /\ IsFetch(sent[j])
                                                /\ sent[j].schemaId = sent[m].schemaId})
            IN /\ Has(sent[m].queryDef, "startLine")
               /\ Get(sent[m].queryDef, "startLine") = Num(1 + lineCount * (k - 1))

(* C3: when selectAll or executeQuery rejects, download returns 0, pull starts
   no further download of that schema and goes on to the next schema (or ends
   normally after the last one); pull never raises. *)
C3_RejectedQueryIsContained ==
    /\ cmd = "pull" => outcome = IF pc = "done" THEN "ok" ELSE "none"
    /\ \A k \in 1..Len(returned) :
          returned[k].ended = "query" =>
              /\ returned[k].count = 0
              /\ \A m \in (k + 1)..Len(Downloads) :
                    Downloads[m].schemaId # returned[k].schemaId
              /\ IF EntryIndex(returned[k].schemaId) = Len(campaignConfig)
                 THEN pc = "done" /\ Len(Downloads) = k
                 ELSE /\ Len(Downloads) > k
                      /\ Downloads[k + 1].schemaId =
                            campaignConfig[EntryIndex(returned[k].schemaId) + 1].k

\* a finished pull whose first download was rejected and which then fetched a
\* page of the next schema
C3_Witness ==
    /\ cmd = "pull" /\ pc = "done" /\ outcome = "ok"
    /\ Len(returned) >= 2
    /\ returned[1].ended = "query"
    /\ returned[2].schemaId # returned[1].schemaId
    /\ returned[2].ended = "end"
    /\ returned[2].count > 0

(* C4: a write that throws inside download aborts the run: the error leaves
   download and pull, and nothing is processed after the failed write. *)
C4_WriteErrorAbortsRun ==
    (\E j \in 1..Len(writes) : ~writes[j].ok) =>
        /\ pc = "done"
        /\ outcome = "Error"
        /\ ~writes[Len(writes)].ok

(* C5: check raises a CampaignError exactly when the destination exists and
   holds at least one entry. *)
C5_CheckRaisesWhenNotEmpty ==
    (cmd = "check" /\ pc = "done") =>
        (outcome = "CampaignError" <=> (disk.exists /\ DOMAIN disk.files # {}))

(* C6: in check, a rejected query is printed as a message line and never leaves
   check; the query of every entry is sent, in order, whichever queries are
   rejected, and check prints one line per query. *)
C6_CheckContainsQueryFailures ==
    cmd = "check" =>
        /\ outcome = IF pc = "done" THEN "ok" ELSE "none"
        /\ Len(ChecksSent) = IF pc = "done" THEN Len(campaignConfig) ELSE Len(log) + 1
        /\ \A e \in 1..Len(ChecksSent) : ChecksSent[e].schemaId = campaignConfig[e].k
        /\ \A e \in 1..Len(log) :
              /\ log[e].schemaId = campaignConfig[e].k
              /\ log[e].kind \in {"found", "error"}
        /\ pc = "done" => Len(log) = Len(campaignConfig)

\* a finished check whose first query was rejected and whose second was answered
C6_Witness ==
    /\ cmd = "check" /\ pc = "done" /\ outcome = "ok"
    /\ log[1].kind = "error"
    /\ log[2].kind = "found"
    /\ Len(ChecksSent) = Len(campaignConfig)

IsShallowMerge(r, base, override) ==
    /\ \A a, b \in 1..Len(r) : r[a].k = r[b].k => a = b
    /\ KeySet(r) = KeySet(base) \cup KeySet(override)
    /\ \A key \in KeySet(r) :
          Get(r, key) = IF Has(override, key) THEN Get(override, key)
                        ELSE Get(base, key)

QueryDefOf(config) == IF "queryDef" \in DOMAIN config THEN config.queryDef ELSE <<>>

(* C7: for a schema id without an entry of its own, _getQueryDefForSchema
   returns the base spec shallow-merged with the queryDef of the "default"
   entry, and the base spec itself when that entry has no queryDef. *)
C7_NoEntryFallsBackToDefault ==
    (called = "_getQueryDefForSchema" /\ ~Has(campaignConfig, args.schema)) =>
        /\ IsShallowMerge(result, args.baseQueryDef,
                          QueryDefOf(Get(campaignConfig, CONFIG_DEFAULT_KEY)))
        /\ "queryDef" \notin DOMAIN Get(campaignConfig, CONFIG_DEFAULT_KEY) =>
              result = args.baseQueryDef

\* a schema id without entry, resolved against a default entry whose queryDef
\* collides with the base spec on operation
C7_Witness ==
    /\ called = "_getQueryDefForSchema"
    /\ ~Has(campaignConfig, args.schema)
    /\ Has(QueryDefOf(Get(campaignConfig, CONFIG_DEFAULT_KEY)), "operation")
    /\ Get(result, "operation") = Str("d")
    /\ Get(args.baseQueryDef, "operation") = Str("select")

(* C8: for a schema id with its own entry, the result of _getQueryDefForSchema
   has exactly the keys of the base spec and of the entry's queryDef, with the
   queryDef's value for each of its keys and the base spec's value for the
   others. *)
C8_OwnEntryOverridesBase ==
    (called = "_getQueryDefForSchema" /\ Has(campaignConfig, args.schema)) =>
        IsShallowMerge(result, args.baseQueryDef,
                       QueryDefOf(Get(campaignConfig, args.schema)))

\* an entry whose queryDef collides with the base spec on operation: the
\* queryDef's operation and the base spec's startLine are in the result
C8_Witness ==
    /\ called = "_getQueryDefForSchema"
    /\ args.schema = "nms:recipient"
    /\ Has(campaignConfig, args.schema)
    /\ Has(QueryDefOf(Get(campaignConfig, args.schema)), "operation")
    /\ Get(result, "operation") = Str("r")
    /\ Has(result, "startLine")
    /\ Get(result, "startLine") = Num(1 + lineCount)

(* C9: "default" is never treated as a schema: this.schemas is the keys of the
   configuration other than "default", and every query check and pull send is
   for one of those keys. *)
C9_DefaultIsNeverQueried ==
    /\ {schemas[j] : j \in 1..Len(schemas)} = KeySet(campaignConfig) \ {"default"}
    /\ \A m \in 1..Len(sent) :
          /\ sent[m].schemaId # "default"
          /\ Get(sent[m].queryDef, "schema").s \in KeySet(campaignConfig) \ {"default"}

\* the template with each placeholder replaced, in order, by the record's value
\* of the attribute, or by "" when the record has no such attribute
RECURSIVE ExpectedFilename(_, _, _)
ExpectedFilename(filename, attributes, record) ==
    IF attributes = <<>> THEN filename
    ELSE LET name == StringReplace(Head(attributes), <<"@">>, <<>>)
         IN ExpectedFilename(
                StringReplace(filename, <<"{">> \o Head(attributes) \o <<"}">>,
                              IF name \in DOMAIN record THEN record[name] ELSE <<>>),
                Tail(attributes), record)

(* C10: in both record shapes, _computeFilename replaces each placeholder whose
   attribute the record lacks by the empty string. *)
C10_MissingAttributeIsEmpty ==
    called = "_computeFilename" =>
        result = ExpectedFilename(
                     args.configFilename,
                     _getAttributesFromSchemaConfig([filename |-> args.configFilename]),
                     args.record)

\* a token of a template starts at a "{" that has a "}" at least two characters
\* further, and ends at the nearest such "}"
CanStart(s, p) == s[p] = "{" /\ \E j \in (p + 2)..Len(s) : s[j] = "}"
TokenEnd(s, p) == MinOf({j \in (p + 2)..Len(s) : s[j] = "}"})

\* the tokens of a template, by their first character: the possible starts that
\* lie in no token that starts further left
TokenStarts(s) ==
    LET starts == {p \in 1..Len(s) : CanStart(s, p)}
    IN CHOOSE S \in SUBSET starts :
           \A p \in starts :
               p \in S <=> ~\E q \in S : q < p /\ p <= TokenEnd(s, q)

\* the names of the tokens, one per token, from left to right
TokenNames(s) ==
    LET S == TokenStarts(s)
        at == CHOOSE f \in [1..Cardinality(S) -> S] :
                  \A a, b \in 1..Cardinality(S) : a < b => f[a] < f[b]
    IN [j \in 1..Cardinality(S) |-> SubSeq(s, at[j] + 1, TokenEnd(s, at[j]) - 1)]

\* a sequence without the repetitions of its elements
RECURSIVE FirstOccurrences(_)
FirstOccurrences(names) ==
    IF names = <<>> THEN <<>>
    ELSE LET front == FirstOccurrences(SubSeq(names, 1, Len(names) - 1))
             last == names[Len(names)]
         IN IF \E j \in 1..(Len(names) - 1) : names[j] = last
            THEN front ELSE Append(front, last)

(* C11 (as amended): _getAttributesFromSchemaConfig returns the name of every
   token of the template, one per occurrence, from left to right: a name that
   occurs twice is returned twice; a template whose N tokens have N different
   names gives exactly these N names, a template without token gives the empty
   sequence. *)
C11_TokenNamesPerOccurrence ==
    called = "_getAttributesFromSchemaConfig" =>
        LET names == TokenNames(args.filename)
        IN /\ result = names
           /\ TokenStarts(args.filename) = {} => result = <<>>
           /\ (\A a, b \in 1..Len(names) : names[a] = names[b] => a = b) =>
                 /\ Len(result) = Cardinality({names[j] : j \in 1..Len(names)})
                 /\ result = FirstOccurrences(names)

\* a template with two tokens of different names: both names, in order
C11_Witness ==
    /\ called = "_getAttributesFromSchemaConfig"
    /\ Len(args.filename) = MaxTemplateLen
    /\ result = << <<"n">>, <<"m">> >>

(* C11 (as stated): for every template, _getAttributesFromSchemaConfig returns
   the distinct token names, each once, in order of first occurrence. *)
C11_DistinctNamesInOrderOfFirstOccurrence ==
    called = "_getAttributesFromSchemaConfig" =>
        result = FirstOccurrences(TokenNames(args.filename))

(* C12: with templates written with percent tokens, the file of a record of
   nms:recipient is named by the template with the token replaced by the
   record's name attribute, it holds the record's serialized payload, and no
   percent token is left in its name. *)
C12_PercentTokensAreSubstituted ==
    campaignConfig = CfgPercent =>
        \A j \in 1..Len(writes) :
            writes[j].data.schema = "nms:recipient" =>
                /\ writes[j].path =
                      <<"r", "_">>
                      \o Record("nms:recipient", writes[j].data.line)[<<"n">>]
                      \o <<".", "x">>
                /\ \A c \in 1..Len(writes[j].path) : writes[j].path[c] # "%"
                /\ writes[j].ok =>
                      /\ writes[j].path \in DOMAIN disk.files
                      /\ disk.files[writes[j].path].schema = "nms:recipient"

\* the lines of the page a returned download fetched
PageOf(r) == Window(DownloadQueryDef(r.schemaId, r.startLine))

(* C13: during pull at most one remote call is outstanding; a download is
   started only when the previous one has returned, with a write made for
   every record of its page (up to a write that threw); the downloads of a
   schema are consecutive, in the order of the schemas, so that the first page
   of a schema is fetched after the last page of the schema before it. *)
C13_OneOutstandingCall ==
    cmd = "pull" =>
        /\ Len(sent) - settled = IF pc = "done" THEN 0 ELSE 1
        /\ Len(Downloads) = Len(returned) + IF pc = "done" THEN 0 ELSE 1
        /\ \A k \in 1..Len(returned) :
              /\ returned[k].schemaId = Downloads[k].schemaId
              /\ returned[k].startLine = Downloads[k].line
              /\ returned[k].ended = "end" =>
                    \A j \in 1..Len(PageOf(returned[k])) :
                        \E w \in 1..Len(writes) :
                            /\ writes[w].ok
                            /\ writes[w].data =
                                  toXMLString(returned[k].schemaId,
                                              PageOf(returned[k])[j])
        /\ \A a, b \in 1..Len(Downloads) :
              a < b => EntryIndex(Downloads[a].schemaId) <= EntryIndex(Downloads[b].schemaId)
        /\ \A m \in 1..Len(sent) :
              IsFetch(sent[m]) =>
                  /\ m > 1
                  /\ sent[m - 1].method = "selectAll"
                  /\ sent[m - 1].schemaId = sent[m].schemaId
                  /\ sent[m - 1].line = sent[m].line

\* the second page of a schema is being fetched: its first page has returned
\* with its 10 records written, and one call is outstanding
C13_Witness ==
    /\ cmd = "pull" /\ pc = "download.executeQuery"
    /\ Len(returned) = 2
    /\ Len(Downloads) = 3
    /\ returned[2].schemaId = Downloads[3].schemaId
    /\ returned[2].count = lineCount
    /\ Len(writes) = lineCount
    /\ Len(sent) - settled = 1

\* number of writes issued by the downloads that returned before the k-th: each
\* download issues as many writes as the number it returns
RECURSIVE WritesBefore(_)
WritesBefore(k) == IF k = 1 THEN 0 ELSE WritesBefore(k - 1) + returned[k - 1].count

\* the write download makes for a record of a schema when the write succeeds
WriteOf(schemaId, line) ==
    [path |-> ExpectedFilename(DownloadConfig(schemaId).filename,
                               TokenNames(DownloadConfig(schemaId).filename),
                               Record(schemaId, line)),
     data |-> toXMLString(schemaId, line),
     ok |-> TRUE]

(* C14 (as amended): for a page fetched without error and whose writes all
   succeed, download issues exactly one write per record, in the order of the
   page, to the computed filename with the record's serialized XML, and
   returns the number of records of the page; when a write throws, the walk
   ends at that record: the records before it are written, no write is made for
   the records after it, and the number returned is the position of that
   record in the page. *)
C14_OneWritePerRecordUntilAWriteThrows ==
    /\ Len(writes) = WritesBefore(Len(returned) + 1)
    /\ \A k \in 1..Len(returned) :
          LET lines == PageOf(returned[k])
              first == WritesBefore(k)
          IN /\ returned[k].ended = "query" => returned[k].count = 0
             /\ returned[k].ended = "end" =>
                   /\ returned[k].count = Len(lines)
                   /\ \A j \in 1..Len(lines) :
                         writes[first + j] = WriteOf(returned[k].schemaId, lines[j])
             /\ returned[k].ended = "write" =>
                   /\ returned[k].count \in 1..Len(lines)
                   /\ \A j \in 1..(returned[k].count - 1) :
                         writes[first + j] = WriteOf(returned[k].schemaId, lines[j])
                   /\ ~writes[first + returned[k].count].ok
                   /\ writes[first + returned[k].count].data =
                         toXMLString(returned[k].schemaId, lines[returned[k].count])

\* a full page written in full, and a page whose second write threw
C14_Witness ==
    /\ cmd = "pull" /\ pc = "done"
    /\ \E k \in 1..Len(returned) :
          /\ returned[k].ended = "end"
          /\ returned[k].count = lineCount
          /\ \A j \in 1..lineCount : writes[WritesBefore(k) + j].ok
    /\ \E k \in 1..Len(returned) :
          /\ returned[k].ended = "write"
          /\ returned[k].count = 2
          /\ Len(PageOf(returned[k])) > 2

(* C14 (as stated): for a page fetched without error, download issues exactly
   one write per record of the page and returns the number of records of the
   page. *)
C14_OneWritePerRecordOfAFetchedPage ==
    \A k \in 1..Len(returned) :
        returned[k].ended # "query" =>
            /\ returned[k].count = Len(PageOf(returned[k]))
            /\ \A j \in 1..Len(PageOf(returned[k])) :
                  writes[WritesBefore(k) + j] =
                      WriteOf(returned[k].schemaId, PageOf(returned[k])[j])

(* C15 (as amended): every query check sends for an entry whose queryDef does
   not set operation has operation = select after the merge, and the line
   printed for the entry shows the number of records that query returned. *)
C15_CheckSelectsAndReportsTheNumberOfRecords ==
    cmd = "check" =>
        /\ \A e \in 1..Len(ChecksSent) :
              ~Has(QueryDefOf(campaignConfig[e].v), "operation") =>
                  /\ Has(ChecksSent[e].queryDef, "operation")
                  /\ Get(ChecksSent[e].queryDef, "operation") = Str("select")
        /\ \A e \in 1..Len(log) :
              log[e].kind = "found" =>
                  /\ log[e].schemaId = ChecksSent[e].schemaId
                  /\ log[e].count = Len(Window(ChecksSent[e].queryDef))

\* a finished check that printed the number of records of a schema that has some
C15_Witness ==
    /\ cmd = "check" /\ pc = "done"
    /\ \E e \in 1..Len(log) :
          /\ log[e].kind = "found"
          /\ log[e].schemaId = "nms:recipient"
          /\ log[e].count = lineCount + 1
          /\ Get(ChecksSent[e].queryDef, "operation") = Str("select")

(* C15 (as stated): every query check sends has operation = count after the
   merge. *)
C15_CheckQueriesAreCountQueries ==
    \A e \in 1..Len(ChecksSent) :
        /\ Has(ChecksSent[e].queryDef, "operation")
        /\ Get(ChecksSent[e].queryDef, "operation") = Str("count")

(* C16: the configuration is immutable for the run: no step of check or pull
   changes an entry of campaignConfig, its filename or a field of its queryDef,
   the node list of a select object the configuration owns included. *)
C16_ConfigurationIsImmutable ==
    [][campaignConfig' = campaignConfig /\ heap' = heap]_vars

\* the writes to a path that succeeded, by their position in writes
WritesTo(path) == {w \in 1..Len(writes) : writes[w].ok /\ writes[w].path = path}

(* C17: pull never raises, whatever the destination holds: it starts a
   download for every schema of the configuration, and a file whose path
   already exists is overwritten: when pull has ended every path written holds
   the payload of the last write to it, and the other files are as pull found
   them. *)
C17_PullOverwritesExistingFiles ==
    cmd = "pull" =>
        /\ outcome = IF pc = "done" THEN "ok" ELSE "none"
        /\ pc = "done" =>
              \A j \in 1..Len(schemas) :
                  \E d \in 1..Len(Downloads) : Downloads[d].schemaId = schemas[j]
        /\ DOMAIN disk.files =
              DOMAIN initialDisk.files
              \cup {writes[w].path : w \in {v \in 1..Len(writes) : writes[v].ok}}
        /\ \A path \in DOMAIN disk.files :
              disk.files[path] = IF WritesTo(path) = {} THEN initialDisk.files[path]
                                 ELSE writes[MaxOf(WritesTo(path))].data

\* a finished pull on a destination that held a file at the path of the first
\* record of nms:recipient: the file holds that record
C17_Witness ==
    /\ cmd = "pull" /\ pc = "done" /\ outcome = "ok"
    /\ <<"r", "_", "1", ".", "x">> \in DOMAIN initialDisk.files
    /\ initialDisk.files[<<"r", "_", "1", ".", "x">>] = OldFile
    /\ disk.files[<<"r", "_", "1", ".", "x">>] = toXMLString("nms:recipient", 1)
    /\ \A e \in 1..Len(campaignConfig) :
          \E d \in 1..Len(Downloads) : Downloads[d].schemaId = campaignConfig[e].k

\* the SDK calls that attempt a connection
ConnectionAttempts ==
    SelectSeq(sdkCalls, LAMBDA c : c.call \in {"sdk.init", "client.logon"})

(* C18: init with an alias that is among this.instanceIds raises a
   CampaignError whose message contains "already exists"; nothing is written
   to the config store and no login is attempted. *)
C18_InitRejectsKnownAlias ==
    (authCmd = "init" /\ authOptions.alias \in instanceIds) =>
        /\ authPc = "done"
        /\ authOutcome = "CampaignError"
        /\ authMessage = "already exists"
        /\ storeWrites = <<>>
        /\ sdkCalls = <<>>
        /\ DOMAIN store = instanceIds

\* init with complete credentials under an alias that is known
C18_Witness ==
    /\ authCmd = "init"
    /\ authOptions.alias \in instanceIds
    /\ authOptions.host = "x" /\ authOptions.user = "x" /\ authOptions.password = "x"
    /\ authOutcome = "CampaignError"
    /\ authMessage = "already exists"

\* login has been entered: by the login command, or by an init that has stored
\* its entry
LoginEntered ==
    \/ authCmd = "login"
    \/ authCmd = "init" /\ storeWrites # <<>>

(* C19: login for an alias whose stored entry is absent, or lacks one of host,
   user and password, raises a CampaignError whose message contains "doesn't
   exist", before any connection attempt: neither sdk.init nor logon is
   called. *)
C19_LoginRejectsIncompleteEntry ==
    (/\ LoginEntered
     /\ \/ authOptions.alias \notin DOMAIN store
        \/ \E f \in {"host", "user", "password"} : store[authOptions.alias][f] = "") =>
        /\ authPc = "done"
        /\ authOutcome = "CampaignError"
        /\ authMessage = "doesn't exist"
        /\ ConnectionAttempts = <<>>
        /\ sdkCalls = <<>>

\* login for an alias that is stored with a host and a user but no password,
\* while another alias is absent
C19_Witness ==
    /\ authCmd = "login"
    /\ authOptions.alias \in DOMAIN store
    /\ DOMAIN store # Aliases
    /\ store[authOptions.alias] = [host |-> "x", user |-> "x", password |-> ""]
    /\ authOutcome = "CampaignError"
    /\ authMessage = "doesn't exist"

(* C20: login returns a client only when the session exposes server info after
   logon: when serverInfo is missing, login raises a CampaignError whose
   message contains "Unable to get server info" and returns no client. *)
C20_ClientOnlyWithServerInfo ==
    /\ authOutcome = "client" =>
          /\ Len(sdkCalls) = 3
          /\ sdkCalls[1].call = "sdk.init"
          /\ sdkCalls[2].call = "client.logon"
          /\ sdkCalls[3].call = "getSessionInfo"
          /\ sdkCalls[3].with.serverInfo
    /\ \A c \in 1..Len(sdkCalls) :
          (sdkCalls[c].call = "getSessionInfo" /\ ~sdkCalls[c].with.serverInfo) =>
              /\ authPc = "done"
              /\ authOutcome = "CampaignError"
              /\ authMessage = "Unable to get server info"

\* a login that connected and logged on to a session without server info
C20_Witness ==
    /\ authCmd = "login"
    /\ Len(sdkCalls) = 3
    /\ sdkCalls[2].call = "client.logon"
    /\ ~sdkCalls[3].with.serverInfo
    /\ authOutcome = "CampaignError"
    /\ authMessage = "Unable to get server info"

(* C21: every error raised while a check or pull command runs ends the process
   abnormally: a CampaignError is printed on the error stream and the process
   exits with code 1; any other error, a write that threw included, is thrown
   again and not swallowed. *)
C21_EveryErrorEndsTheProcessAbnormally ==
    process.state = "exited" =>
        /\ authOutcome = "CampaignError" =>
              /\ process.code = 1
              /\ process.stderr = authMessage
              /\ ~process.rethrown
        /\ authOutcome = "Error" => process.rethrown
        /\ (\E j \in 1..Len(writes) : ~writes[j].ok) =>
              /\ process.code # 0
              /\ process.rethrown

DecimalDigits == {"0", "1", "2", "3", "4", "5", "6", "7", "8", "9"}

\* YYYY/MM/DD/HH-MM-SS_mmm, by position
ArchiveDateForm ==
    [c \in 1..23 |->
        CASE c \in {5, 8, 11} -> {"/"}
          [] c \in {14, 17} -> {"-"}
          [] c = 20 -> {"_"}
          [] OTHER -> DecimalDigits]

(* C22: for every instant, getArchiveDate returns a string of the fixed-width
   form YYYY/MM/DD/HH-MM-SS_mmm: month, day, hour, minute and second of two
   digits, milliseconds of three. *)
C22_ArchiveDateIsFixedWidth ==
    called = "getArchiveDate" =>
        /\ Len(result) = 23
        /\ \A c \in 1..23 : result[c] \in ArchiveDateForm[c]

(* C23: in check the test of the destination comes after the queries: on a
   destination that is not empty, the query of every entry is sent and its
   line printed, and then the CampaignError is raised. *)
C23_QueriesThenNotEmptyError ==
    (cmd = "check" /\ DOMAIN disk.files # {}) =>
        /\ outcome = "CampaignError" =>
              /\ Len(ChecksSent) = Len(campaignConfig)
              /\ Len(log) = Len(campaignConfig)
        /\ pc = "done" =>
              /\ Len(ChecksSent) = Len(campaignConfig)
              /\ Len(log) = Len(campaignConfig)
              /\ outcome = "CampaignError"

(* C24: in every execution of download, one in which a write throws part-way
   through the page included, the number returned is the number of records of
   the page that were written to disk during the call. *)
C24_ReturnedIsTheNumberWritten ==
    \A k \in 1..Len(returned) :
        returned[k].count =
            Cardinality({w \in (WritesBefore(k) + 1)..(WritesBefore(k) + returned[k].count) :
                            w <= Len(writes) /\ writes[w].ok})

(* C25: for a schema id whose own entry has no queryDef, _getQueryDefForSchema
   returns the base spec unchanged: the queryDef of the "default" entry is not
   applied; and for every schema id and base spec the resolver returns a query
   definition that has every key of the base spec: it raises no error. *)
C25_EntryWithoutQueryDefKeepsBase ==
    called = "_getQueryDefForSchema" =>
        /\ KeySet(args.baseQueryDef) \subseteq KeySet(result)
        /\ Len(result) >= Len(args.baseQueryDef)
        /\ (/\ Has(campaignConfig, args.schema)
            /\ "queryDef" \notin DOMAIN Get(campaignConfig, args.schema)) =>
               result = args.baseQueryDef

\* an entry without queryDef, while the default entry has a queryDef that sets
\* operation: the base spec's operation is kept
C25_Witness ==
    /\ called = "_getQueryDefForSchema"
    /\ args.schema = "nms:recipient"
    /\ Has(campaignConfig, args.schema)
    /\ "queryDef" \notin DOMAIN Get(campaignConfig, args.schema)
    /\ Has(QueryDefOf(Get(campaignConfig, CONFIG_DEFAULT_KEY)), "operation")
    /\ result = args.baseQueryDef
    /\ Get(result, "operation") = Str("select")

(* C26: check is non-destructive: whether its queries resolve or reject and
   whether the destination exists or not, it makes no filesystem write, does
   not create the destination, and leaves what the destination holds as it
   found it. *)
C26_CheckIsNonDestructive ==
    cmd = "check" =>
        /\ writes = <<>>
        /\ disk.exists = initialDisk.exists
        /\ disk.files = initialDisk.files
        /\ returned = <<>>

\* a finished check, with a query rejected and a query answered, on a
\* destination that does not exist
C26_Witness ==
    /\ cmd = "check" /\ pc = "done"
    /\ ~initialDisk.exists
    /\ ~disk.exists
    /\ \E e \in 1..Len(log) : log[e].kind = "error"
    /\ \E e \in 1..Len(log) : log[e].kind = "found" /\ log[e].count > 0

\* positions in sent of the fetches (executeQuery calls) of a pull
Fetches == {i \in 1..Len(sent) : sent[i].op = "download" /\ sent[i].method = "executeQuery"}

\* first line of the window a fetch asks the server for
FirstLineAsked(i) == NumberOr(sent[i].queryDef, "startLine", 1)

(* C27: pull terminates: for every configuration, a queryDef that sets
   startLine or lineCount included, on a server that holds finitely many
   records and answers every query with the window asked for, pull makes
   finitely many fetches and reaches its end. Stated by the variant of the
   loop: of two fetches of one schema, the later asks for a window that
   starts further, so that the lines asked for pass the last record and a
   short page ends the loop. *)
C27_EveryFetchStartsFurther ==
    \A i, j \in Fetches :
        (i < j /\ sent[i].schemaId = sent[j].schemaId)
            => FirstLineAsked(i) < FirstLineAsked(j)

\* the fetches of a pull that asked for a line of a schema
FetchesOf(schemaId, line) ==
    {i \in Fetches : /\ sent[i].schemaId = schemaId
                     /\ \E j \in 1..Len(Window(sent[i].queryDef)) :
                            Window(sent[i].queryDef)[j] = line}

\* a pull that has ended with every query answered and every write done
PullEndedWithoutError ==
    /\ cmd = "pull"
    /\ pc = "done"
    /\ \A r \in 1..Len(returned) : returned[r].ended = "end"

(* C28: when no query fails, a completed pull has fetched every record of
   every schema exactly once: for a schema holding N records the windows asked
   for cover the lines 1..N with no gap and no overlap, for every
   configuration, one whose queryDef sets lineCount or startLine included. *)
C28_EveryRecordFetchedExactlyOnce ==
    PullEndedWithoutError
        => \A schemaId \in DOMAIN server :
             \A line \in 1..server[schemaId] :
                Cardinality(FetchesOf(schemaId, line)) = 1

\* records the first k downloads that returned have fetched
RECURSIVE RecordsFetched(_)
RecordsFetched(k) ==
    IF k = 0 THEN 0 ELSE RecordsFetched(k - 1) + returned[k].count

(* C29: within one pull no record overwrites another: any two distinct
   records written during the run, of the same or of different schemas, are
   written to distinct paths, so that after an error-free pull into an empty
   destination the number of files equals the number of records fetched. *)
C29_NoRecordOverwritesAnother ==
    cmd = "pull"
        => /\ \A i, j \in 1..Len(writes) :
                (writes[i].ok /\ writes[j].ok /\ writes[i].data # writes[j].data)
                    => writes[i].path # writes[j].path
           /\ (PullEndedWithoutError /\ initialDisk.files = NoFiles)
                => Cardinality(DOMAIN disk.files) = RecordsFetched(Len(returned))

\* an init that stored its entry and whose login then failed: the connection
\* or the logon was rejected, or the session had no server info
InitFailedInLogin ==
    /\ authCmd = "init"
    /\ authPc = "done"
    /\ storeWrites # <<>>
    /\ sdkCalls # <<>>
    /\ authOutcome \in {"Error", "CampaignError"}

(* C30: init leaves the config store unchanged on failure: when the login
   step of init(alias) fails (connection, logon or missing server info), the
   credentials of the alias are not left stored, so that a CampaignAuth
   constructed on the store afterwards does not find the alias among its
   instance ids and a later init with it is not rejected as already
   existing. *)
C30_FailedInitLeavesNoEntry ==
    InitFailedInLogin => authOptions.alias \notin DOMAIN store

====
